---- MODULE Spec2Model ----
(***************************************************************************)
(* Model of the GitLab issue synchronizer of obsidian-gitlab-issues:       *)
(* the plugin entry point (main.ts), the loader (gitlab-loader), the       *)
(* file reconciliation (filesystem, in its two revisions) and the pure     *)
(* helpers (utils).  Strings are sequences of one-character strings, so    *)
(* that sanitizing, splitting and trimming are computed, not assumed.      *)
(***************************************************************************)
EXTENDS Integers, Sequences, FiniteSets, TLC

(* ------------------------------------------------------------------ *)
(* Bounds of the model                                                 *)
(* ------------------------------------------------------------------ *)

\* number of synchronizer runs a behaviour may start
MaxRuns == 2

\* number of vault operations of earlier runs that may still be pending
\* when a trigger starts a new run
MaxBacklog == 1

\* number of runs a behaviour of the fair specification may start
MaxLiveRuns == 1

\* number of comma-separated entries of a custom-scope string
MaxEntries == 3

\* length of a string handed to sanitizeFileName
MaxLen == 3

\* number of elements of a sequence handed to needsUpdate
MaxElems == 1

\* number of links of a rendered block
MaxLinks == 2
\* calls of scheduleAutomaticRefresh in one behaviour
MaxCalls == 3
\* the timer handles window.setInterval may return: 1..MaxTimerId
MaxTimerId == 3

(* ------------------------------------------------------------------ *)
(* Strings                                                             *)
(* ------------------------------------------------------------------ *)

RECURSIVE RemoveChar(_, _)
\* value.replace(/[c]/g, "")
RemoveChar(s, c) ==
    IF s = <<>> THEN <<>>
    ELSE IF Head(s) = c THEN RemoveChar(Tail(s), c)
         ELSE <<Head(s)>> \o RemoveChar(Tail(s), c)

\* the character class [*"/\\<>|?] of sanitizeFileName
ForbiddenChars == {"*", "\"", "/", "\\", "<", ">", "|", "?"}

\* sanitizeFileName whose character class lost the escaped backslash
sanitizeFileNameUnescaped(value) ==
    LET stripped == RemoveChar(value, ":")
    IN  [i \in 1..Len(stripped) |->
            IF stripped[i] \in ForbiddenChars \ {"\\"} THEN "-" ELSE stripped[i]]

\* utils: sanitizeFileName(value)
sanitizeFileName(value) ==
    LET stripped == RemoveChar(value, ":")
    IN  [i \in 1..Len(stripped) |->
            IF stripped[i] \in ForbiddenChars THEN "-" ELSE stripped[i]]

RECURSIVE Split(_, _)
\* String.prototype.split(sep) for a one-character separator
Split(s, sep) ==
    IF \A i \in 1..Len(s) : s[i] # sep THEN <<s>>
    ELSE LET p == CHOOSE i \in 1..Len(s) :
                      s[i] = sep /\ \A j \in 1..(i - 1) : s[j] # sep
         IN  <<SubSeq(s, 1, p - 1)>> \o Split(SubSeq(s, p + 1, Len(s)), sep)

RECURSIVE TrimStart(_)
TrimStart(s) ==
    IF s # <<>> /\ Head(s) = " " THEN TrimStart(Tail(s)) ELSE s

RECURSIVE TrimEnd(_)
TrimEnd(s) ==
    IF s # <<>> /\ s[Len(s)] = " " THEN TrimEnd(SubSeq(s, 1, Len(s) - 1)) ELSE s

\* String.prototype.trim()
Trim(s) == TrimEnd(TrimStart(s))

\* String.prototype.toUpperCase() on the letters the model uses
ToUpperCase(s) ==
    [i \in 1..Len(s) |->
        CASE s[i] = "g" -> "G"
          [] s[i] = "p" -> "P"
          [] s[i] = "x" -> "X"
          [] OTHER -> s[i]]

(* ------------------------------------------------------------------ *)
(* Value trees (the result of parseYaml) and needsUpdate               *)
(* ------------------------------------------------------------------ *)

\* a value is [t |-> tag, v |-> payload]; scalars carry their text
Undefined == [t |-> "undef", v |-> <<>>]
Null == [t |-> "null", v |-> <<>>]
Num(text) == [t |-> "num", v |-> text]
Str(text) == [t |-> "str", v |-> text]
\* the number NaN, which YAML writes .nan
NaN == [t |-> "num", v |-> <<"NaN">>]
Arr(elems) == [t |-> "arr", v |-> elems]
Obj(map) == [t |-> "obj", v |-> map]

\* existing[key] : a missing key reads as undefined
Get(o, key) == IF key \in DOMAIN o.v THEN o.v[key] ELSE Undefined

\* existing[i] on an array
At(a, i) == IF i \in 1..Len(a.v) THEN a.v[i] ELSE Undefined

IsNullish(x) == x.t \in {"undef", "null"}
IsObjectType(x) == x.t \in {"arr", "obj"}

\* a !== b on non-nullish primitives: NaN !== NaN is true
StrictNotEqual(a, b) ==
    IF a.t # b.t THEN TRUE
    ELSE IF a = NaN \/ b = NaN THEN TRUE
    ELSE a.v # b.v

RECURSIVE needsUpdate(_, _)
\* utils: needsUpdate(existing, newObject)
needsUpdate(existing, newObject) ==
    IF IsNullish(newObject) THEN FALSE
    ELSE IF IsNullish(existing) THEN TRUE
    ELSE IF ~IsObjectType(newObject)
         THEN (IF IsObjectType(existing) THEN TRUE
               ELSE StrictNotEqual(existing, newObject))
    ELSE IF newObject.t = "arr"
         THEN (IF existing.t # "arr" THEN TRUE
               ELSE IF Len(existing.v) # Len(newObject.v) THEN TRUE
               ELSE \E i \in 1..Len(newObject.v) :
                        needsUpdate(At(existing, i), At(newObject, i)))
    ELSE IF existing.t # "obj" THEN TRUE
    ELSE \E key \in DOMAIN newObject.v :
             needsUpdate(Get(existing, key), Get(newObject, key))

\* Object.assign(frontmatter, newFrontmatter) on two mappings
ObjectAssign(target, source) ==
    [key \in (DOMAIN target) \cup (DOMAIN source) |->
        IF key \in DOMAIN source THEN source[key] ELSE target[key]]

(* ------------------------------------------------------------------ *)
(* Source resolver (gitlab-loader)                                     *)
(* ------------------------------------------------------------------ *)

\* the result of an operation that may throw
Thrown == [ok |-> FALSE, val |-> <<>>]
Returned(x) == [ok |-> TRUE, val |-> x]

\* one entry of parseCustomSources: "TYPE:id" -> {type, id}, or a throw
ParseSource(source) ==
    LET parts == Split(source, ":")
        type == ToUpperCase(Trim(parts[1]))
    IN  IF type \in {<<"G">>, <<"P">>}
        THEN (IF Len(parts) < 2 THEN Thrown  \* id is undefined: id.trim() throws
              ELSE Returned([type |-> IF type = <<"G">> THEN "group" ELSE "project",
                             id |-> Trim(parts[2])]))
        ELSE Thrown

\* the error ParseSource throws for an entry, or "none"
SourceError(source) ==
    LET parts == Split(source, ":")
        type == ToUpperCase(Trim(parts[1]))
    IN  IF type \notin {<<"G">>, <<"P">>} THEN "InvalidSourceType"
        ELSE IF Len(parts) < 2 THEN "TypeError"
        ELSE "none"

\* parseCustomSources without its .filter((source) => source.length > 0)
parseCustomSourcesUnfiltered(customString) ==
    LET raw == Split(customString, ",")
        trimmed == [i \in 1..Len(raw) |-> Trim(raw[i])]
        parsed == [i \in 1..Len(trimmed) |-> ParseSource(trimmed[i])]
    IN  IF \E i \in 1..Len(parsed) : ~parsed[i].ok THEN Thrown
        ELSE Returned([i \in 1..Len(parsed) |-> parsed[i].val])

\* gitlab-loader: parseCustomSources(customString)
parseCustomSources(customString) ==
    LET raw == Split(customString, ",")
        trimmed == [i \in 1..Len(raw) |-> Trim(raw[i])]
        NonEmpty(x) == Len(x) > 0
        entries == SelectSeq(trimmed, NonEmpty)
        parsed == [i \in 1..Len(entries) |-> ParseSource(entries[i])]
    IN  IF \E i \in 1..Len(parsed) : ~parsed[i].ok THEN Thrown
        ELSE Returned([i \in 1..Len(parsed) |-> parsed[i].val])

\* the error parseCustomSources throws: the one of the first entry, in
\* input order, that ParseSource throws for; "none" when it returns
parseCustomSourcesError(customString) ==
    LET raw == Split(customString, ",")
        trimmed == [i \in 1..Len(raw) |-> Trim(raw[i])]
        NonEmpty(x) == Len(x) > 0
        entries == SelectSeq(trimmed, NonEmpty)
        failing == {i \in 1..Len(entries) : SourceError(entries[i]) # "none"}
    IN  IF failing = {} THEN "none"
        ELSE SourceError(entries[CHOOSE i \in failing : \A j \in failing : i <= j])

(* ------------------------------------------------------------------ *)
(* Issues, templates and frontmatter                                   *)
(* ------------------------------------------------------------------ *)

\* raw issues the remote may return (id, title, description)
Issue1 == [id |-> <<"1">>, title |-> <<"a">>, description |-> "d1"]
\* issue 1 after its title was changed on the remote
Issue1Renamed == [id |-> <<"1">>, title |-> <<"b">>, description |-> "d1"]
\* another issue whose title sanitizes to the filename of issue 1
Issue2 == [id |-> <<"2">>, title |-> <<":", "a">>, description |-> "d2"]
\* an issue whose title does not make a valid YAML scalar
Issue3 == [id |-> <<"3">>, title |-> <<"c", ":", " ", "c">>, description |-> "d3"]

\* the responses the remote may give for a source: project 1 holds issue 1
\* (under either title) and issue 3, group 2 holds issue 2
Responses(source) ==
    IF source.type = "project"
    THEN { <<Issue1>>, <<Issue1Renamed>>, <<Issue3, Issue1>> }
    ELSE { <<Issue2>> }

\* GitlabIssue: the raw issue plus the filename derived from its title
GitlabIssue(rawIssue) ==
    [id |-> rawIssue.id, title |-> rawIssue.title,
     description |-> rawIssue.description,
     filename |-> sanitizeFileName(rawIssue.title)]

\* filesystem: buildFileName(issue); the outputDir prefix and the ".md"
\* suffix are the same for every file and are left out of the path
buildFileName(issue) == issue.filename

\* template(issue): the frontmatter lines (key -> text) and the body.
\* DEFAULT_TEMPLATE emits id, title and dueDate (webUrl and project are
\* further scalars copied from the issue, like id); the user's template
\* is one that emits the title only.
Template(tmpl, issue) ==
    [frontmatter |->
        IF tmpl = "default"
        THEN [id |-> issue.id, title |-> issue.title, dueDate |-> <<>>]
        ELSE [title |-> issue.title],
     body |-> <<issue.title, issue.description>>]

Digits == {"0", "1", "2", "3", "4", "5", "6", "7", "8", "9"}

\* a plain YAML scalar may not contain ": " nor end with ":"
InvalidYamlScalar(text) ==
    \E i \in 1..Len(text) :
        text[i] = ":" /\ (i = Len(text) \/ text[i + 1] = " ")

\* parseYaml on one scalar
ParseYamlScalar(text) ==
    IF text = <<>> THEN Null
    ELSE IF text = <<".", "n", "a", "n">> THEN NaN
    ELSE IF \A i \in 1..Len(text) : text[i] \in Digits THEN Num(text)
    ELSE Str(text)

\* filesystem: getFrontmatterFromContentString(content) on rendered content
getFrontmatterFromContentString(content) ==
    IF \E key \in DOMAIN content.frontmatter :
           InvalidYamlScalar(content.frontmatter[key])
    THEN Thrown
    ELSE Returned(Obj([key \in DOMAIN content.frontmatter |->
                          ParseYamlScalar(content.frontmatter[key])]))

\* whether the synchronous part of saveOrUpdateIssue throws for an issue
RenderThrows(tmpl, issue) ==
    ~getFrontmatterFromContentString(Template(tmpl, issue)).ok

\* the new frontmatter of an issue that renders
NewFrontmatter(tmpl, issue) ==
    getFrontmatterFromContentString(Template(tmpl, issue)).val

(* ------------------------------------------------------------------ *)
(* State                                                               *)
(* ------------------------------------------------------------------ *)

VARIABLES
    settings,     \* the plugin settings the run reads
    isLoading,    \* GitlabIssuesPlugin.isLoading
    nRuns,        \* number of runs started so far
    inflight,     \* runs with a pending remote request, their await over or not
    arrival,      \* order in which requests completed since the last run started
    vault,        \* the files of the output directory, by path
    fileops,      \* vault operations started and not yet completed
    notices,      \* notifications shown to the user, by kind
    failedRuns,   \* runs whose fetch or source resolution failed
    dropped,      \* an invocation was dropped during the run in flight
    lastIssues,   \* the issues the last reconcile step was handed
    repeat,       \* the run whose reconcile step repeats the one before it, or 0
    call,         \* the application of a pure helper: its arguments and result
    links,        \* the anchor elements of the rendered block
    scanned,      \* processElement has scanned the rendered block
    automaticRefresh, \* GitlabIssuesPlugin.automaticRefresh, 0 for null
    timers,       \* the handles of the active interval timers of the window
    calls         \* the interval settings scheduleAutomaticRefresh was called with

vars == <<settings, isLoading, nRuns, inflight, arrival, vault, fileops,
          notices, failedRuns, dropped, lastIssues, repeat>>

\* the state of the helpers' applications and of the link decorator
timerVars == <<automaticRefresh, timers, calls>>

others == <<call, links, scanned, timerVars>>

allVars == <<vars, others>>

\* the paths of the output directory: the issue files and an unrelated note
Paths == {<<"a">>, <<"b">>, <<"x">>}

NoFile == [exists |-> FALSE, frontmatter |-> Null, body |-> <<<<>>, "">>]
File(frontmatter, body) ==
    [exists |-> TRUE, frontmatter |-> frontmatter, body |-> body]

\* a note of the user that no issue maps to
UnrelatedFile == File(Null, <<<<"x">>, "user">>)
\* the file of issue 1 as an earlier import left it, since edited by the
\* user: an own frontmatter key and an own body
EditedIssueFile ==
    File(Obj([id |-> Num(<<"1">>), title |-> Str(<<"a">>), note |-> Str(<<"n">>)]),
         <<<<"a">>, "user">>)

EmptyVault == [p \in Paths |-> NoFile]

InitialVaults ==
    { EmptyVault,
      [EmptyVault EXCEPT ![<<"x">>] = UnrelatedFile, ![<<"a">>] = EditedIssueFile] }

\* gitlabIssuesLevel with its gitlabAppId: "1", "P:1, g:2", "x:1", ""
Sources ==
    { [gitlabIssuesLevel |-> "project", gitlabAppId |-> <<"1">>],
      [gitlabIssuesLevel |-> "custom",
       gitlabAppId |-> <<"P", ":", "1", ",", " ", "g", ":", "2">>],
      [gitlabIssuesLevel |-> "custom", gitlabAppId |-> <<"x", ":", "1">>],
      [gitlabIssuesLevel |-> "custom", gitlabAppId |-> <<>>] }

\* settings.templateFile: a path with no readable file, or the user's template
TemplateFiles == {"missing", "readable"}

Triggers == {"palette", "statusbar", "ribbon", "interval", "startup"}
\* the triggers whose callback tests isLoading before calling fetchFromGitlab
CheckingTriggers == {"palette", "statusbar"}

NoIssue == [id |-> <<>>, title |-> <<>>, description |-> "", filename |-> <<>>]

\* a pending vault operation
Op(kind, run, k, path, issue, tmpl, issues) ==
    [kind |-> kind, run |-> run, k |-> k, path |-> path, issue |-> issue,
     tmpl |-> tmpl, issues |-> issues]

Init ==
    /\ settings \in { [gitlabIssuesLevel |-> s.gitlabIssuesLevel,
                       gitlabAppId |-> s.gitlabAppId,
                       purgeIssues |-> b,
                       templateFile |-> t] :
                           s \in Sources, b \in BOOLEAN, t \in TemplateFiles }
    /\ isLoading = FALSE
    /\ nRuns = 0
    /\ inflight = {}
    /\ arrival = <<>>
    /\ vault \in InitialVaults
    /\ fileops = {}
    /\ notices = [created |-> 0, updated |-> 0, failed |-> 0]
    /\ failedRuns = {}
    /\ dropped = FALSE
    /\ lastIssues = <<>>
    /\ repeat = 0
    /\ call = [fn |-> "none", done |-> FALSE]
    /\ links = <<>>
    /\ scanned = FALSE
    /\ automaticRefresh = 0
    /\ timers = {}
    /\ calls = <<>>

(* ------------------------------------------------------------------ *)
(* Filesystem: purge and reconcile                                     *)
(* ------------------------------------------------------------------ *)

\* vault.getAbstractFileByPath(path) instanceof TFile
IsTFile(path) == path \in Paths /\ vault[path].exists

\* filesystem: purgeExistingIssues() starts one vault.delete per file
purgeExistingIssues(run) ==
    { Op("delete", run, 0, p, NoIssue, "none", <<>>) : p \in {q \in Paths : IsTFile(q)} }

\* filesystem (revision with needsUpdate): saveOrUpdateIssue(issue, template)
\* starts a read of the existing file, or a create
saveOrUpdateIssue(run, k, issue, tmpl) ==
    IF IsTFile(buildFileName(issue))
    THEN Op("read", run, k, buildFileName(issue), issue, tmpl, <<>>)
    ELSE Op("create", run, k, buildFileName(issue), issue, tmpl, <<>>)

\* src/filesystem.ts: saveOrUpdateIssues(issue, template) starts the
\* frontmatter write of the existing file at once, or a create
saveOrUpdateIssues(run, k, issue, tmpl) ==
    IF IsTFile(buildFileName(issue))
    THEN Op("fmWrite", run, k, buildFileName(issue), issue, tmpl, <<>>)
    ELSE Op("create", run, k, buildFileName(issue), issue, tmpl, <<>>)

\* issues.forEach(...): an exception thrown for one issue leaves forEach,
\* so the issues before the first throwing one are the ones handled
Handled(issues, tmpl) ==
    { k \in 1..Len(issues) : \A j \in 1..k : ~RenderThrows(tmpl, issues[j]) }

\* the .then((template) => issues.forEach(...)) of processIssues, in the
\* revision with saveOrUpdateIssue or in src/filesystem.ts
ForEachIssue(revision, run, issues, tmpl) ==
    { IF revision = "saveOrUpdateIssue"
      THEN saveOrUpdateIssue(run, k, issues[k], tmpl)
      ELSE saveOrUpdateIssues(run, k, issues[k], tmpl) : k \in Handled(issues, tmpl) }

\* filesystem: processIssues(issues) starts the read of the template file
processIssues(run, issues) ==
    { Op("tmplRead", run, 0, <<>>, NoIssue, "none", issues) }

\* the frontmatter mapping processFrontMatter hands to its callback
FrontmatterMap(file) ==
    IF file.frontmatter.t = "obj" THEN file.frontmatter.v ELSE <<>>

\* the file after processFrontMatter ran Object.assign(frontmatter, newFrontmatter)
Merged(file, newFrontmatter) ==
    File(Obj(ObjectAssign(FrontmatterMap(file), newFrontmatter.v)), file.body)

\* the file vault.create(path, content) makes of the rendered content
Created(tmpl, issue) ==
    File(NewFrontmatter(tmpl, issue), Template(tmpl, issue).body)

Notify(kind) == [notices EXCEPT ![kind] = @ + 1]

\* vault.delete(existingFile) completes; it is rejected when the file is gone
DeleteDone ==
    \E op \in fileops :
        /\ op.kind = "delete"
        /\ fileops' = fileops \ {op}
        /\ vault' = IF vault[op.path].exists
                    THEN [vault EXCEPT ![op.path] = NoFile]
                    ELSE vault
        /\ UNCHANGED <<settings, isLoading, nRuns, inflight, arrival, notices,
                       failedRuns, dropped, lastIssues, repeat>>

\* the template processIssues compiles: the user's when the read of
\* settings.templateFile succeeds, DEFAULT_TEMPLATE when it is rejected
CompiledTemplate ==
    IF settings.templateFile = "readable" THEN "user" ELSE "default"

\* the read of the template file completes and every issue is handed to save
TemplateReadStep(revision) ==
    \E op \in fileops :
        /\ op.kind = "tmplRead"
        /\ fileops' = (fileops \ {op}) \cup
               ForEachIssue(revision, op.run, op.issues, CompiledTemplate)
        /\ UNCHANGED <<settings, isLoading, nRuns, inflight, arrival, vault,
                       notices, failedRuns, dropped, lastIssues, repeat>>

TemplateReadDone == TemplateReadStep("saveOrUpdateIssue")

\* vault.create(path, content) completes; it is rejected when a file is
\* at the path already; notify: the .then of the revision with notifications
CreateStep(notify) ==
    \E op \in fileops :
        /\ op.kind = "create"
        /\ fileops' = fileops \ {op}
        /\ IF ~vault[op.path].exists
           THEN /\ vault' = [vault EXCEPT ![op.path] = Created(op.tmpl, op.issue)]
                /\ notices' = IF notify THEN Notify("created") ELSE notices
           ELSE UNCHANGED <<vault, notices>>
        /\ UNCHANGED <<settings, isLoading, nRuns, inflight, arrival,
                       failedRuns, dropped, lastIssues, repeat>>

CreateDone == CreateStep(TRUE)

\* vault.read(existingFile) completes (rejected when the file is gone):
\* compare, and start the frontmatter write when needsUpdate says so
ReadDone ==
    \E op \in fileops :
        /\ op.kind = "read"
        /\ IF /\ vault[op.path].exists
              /\ needsUpdate(vault[op.path].frontmatter,
                             NewFrontmatter(op.tmpl, op.issue))
           THEN fileops' = (fileops \ {op}) \cup
                    {Op("fmWrite", op.run, op.k, op.path, op.issue, op.tmpl, <<>>)}
           ELSE fileops' = fileops \ {op}
        /\ UNCHANGED <<settings, isLoading, nRuns, inflight, arrival, vault,
                       notices, failedRuns, dropped, lastIssues, repeat>>

\* fileManager.processFrontMatter(existingFile, fn) completes (rejected
\* when the file is gone)
FrontMatterStep(notify) ==
    \E op \in fileops :
        /\ op.kind = "fmWrite"
        /\ fileops' = fileops \ {op}
        /\ IF vault[op.path].exists
           THEN /\ vault' = [vault EXCEPT ![op.path] =
                                Merged(@, NewFrontmatter(op.tmpl, op.issue))]
                /\ notices' = IF notify THEN Notify("updated") ELSE notices
           ELSE UNCHANGED <<vault, notices>>
        /\ UNCHANGED <<settings, isLoading, nRuns, inflight, arrival,
                       failedRuns, dropped, lastIssues, repeat>>

FrontMatterDone == FrontMatterStep(TRUE)

(* ------------------------------------------------------------------ *)
(* Loader and plugin entry point                                       *)
(* ------------------------------------------------------------------ *)

Pending(source) == [source |-> source, st |-> "pending", resp |-> <<>>]
Fulfilled(source, resp) == [source |-> source, st |-> "fulfilled", resp |-> resp]
Rejected(source) == [source |-> source, st |-> "rejected", resp |-> <<>>]

\* the requests a run issues: one per custom source, or the single one
\* of loadSingleSourceIssues
Requests(sources) == [i \in 1..Len(sources) |-> Pending(sources[i])]

AnyRejected(reqs) == \E i \in 1..Len(reqs) : reqs[i].st = "rejected"
AnyPending(reqs) == \E i \in 1..Len(reqs) : reqs[i].st = "pending"

\* the runs of inflight with reqs for the requests of run: the run stays
\* while one of its requests is pending
Settle(run, reqs) ==
    (inflight \ {run}) \cup
        (IF AnyPending(reqs) THEN {[id |-> run.id, reqs |-> reqs]} ELSE {})

\* Promise.allSettled in place of Promise.all: waits for every request
\* and never rejects
PromiseAllSettled(reqs) ==
    IF \A i \in 1..Len(reqs) : reqs[i].st # "pending" THEN "fulfilled"
    ELSE "pending"

\* the state of `await Promise.all(requests)`
PromiseAll(reqs) ==
    IF AnyRejected(reqs) THEN "rejected"
    ELSE IF \A i \in 1..Len(reqs) : reqs[i].st = "fulfilled" THEN "fulfilled"
    ELSE "pending"

\* the responses in the order in which the requests completed
allIssuesArraysByArrival(reqs) == [i \in 1..Len(reqs) |-> reqs[arrival'[i]].resp]

\* the value of Promise.all: the responses in the order of the requests
allIssuesArrays(reqs) == [i \in 1..Len(reqs) |-> reqs[i].resp]

RECURSIVE Flat(_)
\* Array.prototype.flat()
Flat(arrays) ==
    IF arrays = <<>> THEN <<>> ELSE Head(arrays) \o Flat(Tail(arrays))

\* gitlab-loader: processIssuesData(issues): the vault operations it starts
processIssuesData(run, issues) ==
    LET gitlabIssues == [k \in 1..Len(issues) |-> GitlabIssue(issues[k])]
    IN  (IF settings.purgeIssues THEN purgeExistingIssues(run) ELSE {})
        \cup processIssues(run, gitlabIssues)

\* whether loader.loadIssues() rejects: loadSingleSourceIssues and
\* loadCustomIssues catch every error and log it
loadIssuesRejects(failed) == FALSE

\* main.ts: the catch block of fetchFromGitlab
NoticesAfterRun(failed) ==
    IF loadIssuesRejects(failed) THEN Notify("failed") ELSE notices

\* setLoadingState(false) as the last statement of the try block, which
\* a failed run does not reach, in place of the finally block
LoadingAfterRunNoFinally(failed) == failed

\* main.ts: the finally block of fetchFromGitlab: setLoadingState(false),
\* whether the run failed or not
LoadingAfterRun(failed) == FALSE

\* fetchFromGitlab without its isLoading guard
ReturnsEarlyNever == FALSE

\* main.ts: `if (this.isLoading) return;` of fetchFromGitlab
ReturnsEarly == isLoading

\* the reconcile step of run id over issues comes right after a completed
\* reconcile step of the run before it over the same issues, without purge
RepeatsLastRun(id, issues) ==
    /\ id > 1
    /\ (id - 1) \notin failedRuns
    /\ issues = lastIssues
    /\ fileops = {}
    /\ ~settings.purgeIssues

\* fetchFromGitlab() past its guard, up to the first pending request
StartRun ==
    LET id == nRuns + 1
        parsed == IF settings.gitlabIssuesLevel = "custom"
                  THEN parseCustomSources(settings.gitlabAppId)
                  ELSE Returned(<<[type |-> settings.gitlabIssuesLevel,
                                   id |-> settings.gitlabAppId]>>)
    IN  /\ nRuns < MaxRuns
        /\ Cardinality(fileops) <= MaxBacklog
        /\ nRuns' = id
        /\ arrival' = <<>>
        /\ dropped' = FALSE
        /\ IF ~parsed.ok
           THEN \* the throw is caught in loadCustomIssues; finally clears isLoading
                /\ isLoading' = LoadingAfterRun(TRUE)
                /\ failedRuns' = failedRuns \cup {id}
                /\ notices' = NoticesAfterRun(TRUE)
                /\ UNCHANGED <<inflight, fileops, lastIssues, repeat>>
           ELSE IF parsed.val = <<>>
           THEN \* no request: Promise.all([]) is fulfilled and the run goes on
                /\ fileops' = fileops \cup processIssuesData(id, <<>>)
                /\ isLoading' = LoadingAfterRun(FALSE)
                /\ notices' = NoticesAfterRun(FALSE)
                /\ lastIssues' = <<>>
                /\ repeat' = IF RepeatsLastRun(id, <<>>) THEN id ELSE 0
                /\ UNCHANGED <<inflight, failedRuns>>
           ELSE /\ isLoading' = TRUE
                /\ inflight' = inflight \cup
                       {[id |-> id, reqs |-> Requests(parsed.val)]}
                /\ UNCHANGED <<failedRuns, notices, fileops, lastIssues, repeat>>
        /\ UNCHANGED <<settings, vault>>

\* a trigger fires: palette command, status-bar click, ribbon icon,
\* interval timer or startup timer
Invoke ==
    \E trigger \in Triggers :
        IF (trigger \in CheckingTriggers /\ isLoading) \/ ReturnsEarly
        THEN /\ dropped' = TRUE
             /\ UNCHANGED <<settings, isLoading, nRuns, inflight, arrival,
                            vault, fileops, notices, failedRuns,
                            lastIssues, repeat>>
        ELSE StartRun

\* GitlabApi.load settles for one request of a run, and the run goes on
\* when that settles its await; a request that settles after the await
\* was rejected changes nothing else
RequestDone ==
    \E run \in inflight :
    \E i \in 1..Len(run.reqs) :
    \E outcome \in {Rejected(run.reqs[i].source)} \cup
                    {Fulfilled(run.reqs[i].source, resp) :
                         resp \in Responses(run.reqs[i].source)} :
        /\ run.reqs[i].st = "pending"
        /\ arrival' = Append(arrival, i)
        /\ LET reqs == [run.reqs EXCEPT ![i] = outcome]
           IN  CASE PromiseAll(run.reqs) = "rejected" \/ PromiseAll(reqs) = "pending" ->
                      /\ inflight' = Settle(run, reqs)
                      /\ UNCHANGED <<isLoading, fileops, notices, failedRuns,
                                     lastIssues, repeat, dropped>>
                 [] PromiseAll(reqs) = "fulfilled" ->
                      /\ inflight' = Settle(run, reqs)
                      /\ dropped' = FALSE
                      /\ fileops' = fileops \cup
                             processIssuesData(run.id, Flat(allIssuesArrays(reqs)))
                      /\ isLoading' = LoadingAfterRun(FALSE)
                      /\ failedRuns' = IF AnyRejected(reqs)
                                       THEN failedRuns \cup {run.id}
                                       ELSE failedRuns
                      /\ notices' = NoticesAfterRun(FALSE)
                      /\ lastIssues' = Flat(allIssuesArrays(reqs))
                      /\ repeat' = IF RepeatsLastRun(run.id, Flat(allIssuesArrays(reqs)))
                                   THEN run.id ELSE 0
                 [] OTHER ->
                      /\ inflight' = Settle(run, reqs)
                      /\ dropped' = FALSE
                      /\ isLoading' = LoadingAfterRun(TRUE)
                      /\ failedRuns' = failedRuns \cup {run.id}
                      /\ notices' = NoticesAfterRun(TRUE)
                      /\ UNCHANGED <<fileops, lastIssues, repeat>>
        /\ UNCHANGED <<settings, nRuns, vault>>

(* ------------------------------------------------------------------ *)
(* Specifications                                                      *)
(* ------------------------------------------------------------------ *)

Next ==
    \/ Invoke /\ UNCHANGED others
    \/ RequestDone /\ UNCHANGED others
    \/ DeleteDone /\ UNCHANGED others
    \/ TemplateReadDone /\ UNCHANGED others
    \/ CreateDone /\ UNCHANGED others
    \/ ReadDone /\ UNCHANGED others
    \/ FrontMatterDone /\ UNCHANGED others

\* the plugin with the revision of Filesystem that compares frontmatter
Spec == Init /\ [][Next]_allVars

TemplateReadDoneFs == TemplateReadStep("saveOrUpdateIssues")
CreateDoneFs == CreateStep(FALSE)
FrontMatterDoneFs == FrontMatterStep(FALSE)

NextLive ==
    \/ Invoke /\ nRuns' <= MaxLiveRuns /\ UNCHANGED others
    \/ RequestDone /\ UNCHANGED others
    \/ DeleteDone /\ UNCHANGED others
    \/ TemplateReadDone /\ UNCHANGED others
    \/ CreateDone /\ UNCHANGED others
    \/ ReadDone /\ UNCHANGED others
    \/ FrontMatterDone /\ UNCHANGED others

\* the plugin when every remote request settles: GitlabApi.load fulfils or
\* rejects each request it was handed
SpecLive ==
    Init /\ [][NextLive]_allVars /\ WF_allVars(RequestDone /\ UNCHANGED others)

NextFs ==
    \/ Invoke /\ UNCHANGED others
    \/ RequestDone /\ UNCHANGED others
    \/ DeleteDone /\ UNCHANGED others
    \/ TemplateReadDoneFs /\ UNCHANGED others
    \/ CreateDoneFs /\ UNCHANGED others
    \/ FrontMatterDoneFs /\ UNCHANGED others

\* the plugin with src/filesystem.ts, the revision of Filesystem that
\* writes the frontmatter of every existing file and notifies nobody
SpecFs == Init /\ [][NextFs]_allVars

(* ------------------------------------------------------------------ *)
(* The helpers applied to inputs of their own                          *)
(* ------------------------------------------------------------------ *)

\* no automatic refresh was scheduled
NoTimer ==
    /\ automaticRefresh = 0
    /\ timers = {}
    /\ calls = <<>>

\* the synchronizer before any trigger: no run, no vault operation
Idle ==
    /\ isLoading = FALSE
    /\ nRuns = 0
    /\ inflight = {}
    /\ arrival = <<>>
    /\ vault = EmptyVault
    /\ fileops = {}
    /\ notices = [created |-> 0, updated |-> 0, failed |-> 0]
    /\ failedRuns = {}
    /\ dropped = FALSE
    /\ lastIssues = <<>>
    /\ repeat = 0

\* the plugin as loaded, before any trigger
Unloaded ==
    /\ settings = [gitlabIssuesLevel |-> "custom", gitlabAppId |-> <<>>,
                   purgeIssues |-> FALSE, templateFile |-> "missing"]
    /\ Idle

\* the entries a custom-scope string is made of: "P:1", " g:2 ", "G:45",
\* "x:1", "", "P", "p : 1:2"
Entries ==
    { <<"P", ":", "1">>, <<" ", "g", ":", "2", " ">>, <<"G", ":", "4", "5">>,
      <<"x", ":", "1">>, <<>>, <<"P">>,
      <<"p", " ", ":", " ", "1", ":", "2">> }

RECURSIVE Join(_, _)
\* Array.prototype.join(sep)
Join(parts, sep) ==
    IF Len(parts) = 0 THEN <<>>
    ELSE IF Len(parts) = 1 THEN parts[1]
    ELSE parts[1] \o <<sep>> \o Join(Tail(parts), sep)

\* the custom-scope strings of up to MaxEntries comma-separated entries
CustomStrings ==
    { Join(es, ",") : es \in UNION { [1..n -> Entries] : n \in 1..MaxEntries } }

\* settings.gitlabAppId is drawn for loadCustomIssues
InitParseCustomSources ==
    \E customString \in CustomStrings :
        call = [fn |-> "parseCustomSources", done |-> FALSE,
                customString |-> customString, result |-> Thrown,
                error |-> "none", requests |-> <<>>]

\* gitlab-loader: loadCustomIssues() up to `await Promise.all(requests)`:
\* the sources are parsed and one request is issued per source
ApplyParseCustomSources ==
    /\ call.fn = "parseCustomSources"
    /\ ~call.done
    /\ LET sources == parseCustomSources(call.customString)
       IN  call' = [call EXCEPT
                       !.done = TRUE,
                       !.result = sources,
                       !.error = parseCustomSourcesError(call.customString),
                       !.requests = IF sources.ok THEN Requests(sources.val)
                                    ELSE <<>>]
    /\ UNCHANGED <<vars, links, scanned, timerVars>>

\* scalars of a parsed frontmatter: null, the numbers 1, 2 and NaN, the
\* string "1"
Leaves == {Null, Num(<<"1">>), Num(<<"2">>), NaN, Str(<<"1">>)}

\* the keys of the mappings
Keys == {"a", "b"}

\* the mappings from some of the keys to values of a set
Maps(values) == UNION { [ks -> values] : ks \in SUBSET Keys }

\* the sequences of up to MaxElems values of a set
Seqs(values) == UNION { [1..n -> values] : n \in 0..MaxElems }

\* the values nested in a sequence or a mapping
Inner ==
    Leaves \cup { Arr(elems) : elems \in Seqs({Num(<<"1">>)}) }
           \cup { Obj(map) : map \in Maps({Null, Num(<<"1">>)}) }

\* the value trees needsUpdate is applied to
Values ==
    {Undefined} \cup Leaves
        \cup { Arr(elems) : elems \in Seqs(Inner) }
        \cup { Obj(map) : map \in Maps(Inner) }

\* the two frontmatters are drawn for needsUpdate
InitNeedsUpdate ==
    \E existing \in Values, newObject \in Values :
        call = [fn |-> "needsUpdate", done |-> FALSE, existing |-> existing,
                newObject |-> newObject, result |-> FALSE]

\* utils: needsUpdate(existing, newObject) is applied
ApplyNeedsUpdate ==
    /\ call.fn = "needsUpdate"
    /\ ~call.done
    /\ call' = [call EXCEPT !.done = TRUE,
                            !.result = needsUpdate(call.existing, call.newObject)]
    /\ UNCHANGED <<vars, links, scanned, timerVars>>

\* the mappings among the value trees
Mappings == { value \in Values : value.t = "obj" }

\* an existing and a new frontmatter are drawn for the merge
InitMerge ==
    \E existing \in Mappings, newObject \in Mappings :
        call = [fn |-> "merge", done |-> FALSE, existing |-> existing,
                newObject |-> newObject, merged |-> existing, result |-> FALSE]

\* filesystem: Object.assign(frontmatter, newFrontmatter) in the callback of
\* processFrontMatter, and the needsUpdate of the next run over the same
\* new frontmatter
ApplyMerge ==
    /\ call.fn = "merge"
    /\ ~call.done
    /\ LET merged == Obj(ObjectAssign(call.existing.v, call.newObject.v))
       IN  call' = [call EXCEPT !.done = TRUE,
                                !.merged = merged,
                                !.result = needsUpdate(merged, call.newObject)]
    /\ UNCHANGED <<vars, links, scanned, timerVars>>

\* the characters of a title: the ones sanitizeFileName names, a letter
\* and a blank
TitleChars == {":", "*", "\"", "/", "\\", "<", ">", "|", "?", "a", " "}

\* the strings of up to MaxLen characters
Titles == UNION { [1..n -> TitleChars] : n \in 0..MaxLen }

\* a title is drawn for sanitizeFileName
InitSanitizeFileName ==
    \E value \in Titles :
        call = [fn |-> "sanitizeFileName", done |-> FALSE, value |-> value,
                result |-> <<>>]

\* utils: sanitizeFileName(value) is applied
ApplySanitizeFileName ==
    /\ call.fn = "sanitizeFileName"
    /\ ~call.done
    /\ call' = [call EXCEPT !.done = TRUE,
                            !.result = sanitizeFileName(call.value)]
    /\ UNCHANGED <<vars, links, scanned, timerVars>>

InitFunctions ==
    /\ Unloaded
    /\ links = <<>>
    /\ scanned = FALSE
    /\ NoTimer
    /\ \/ InitParseCustomSources
       \/ InitNeedsUpdate
       \/ InitSanitizeFileName
       \/ InitMerge

NextFunctions ==
    \/ ApplyParseCustomSources
    \/ ApplyNeedsUpdate
    \/ ApplySanitizeFileName
    \/ ApplyMerge

\* the pure helpers, each applied once to an input drawn from its domain
SpecFunctions == InitFunctions /\ [][NextFunctions]_allVars

(* ------------------------------------------------------------------ *)
(* Link decorator (gitlab-issue-postprocessor)                         *)
(* ------------------------------------------------------------------ *)

\* a path is a sequence of tokens: "/", "-", "issues", digits and names
IssueMarker == <<"/", "-", "/", "issues", "/">>

\* the text between the leading "/" and "/-/issues/": none, g, g/p
ProjectPaths == { <<>>, <<"g">>, <<"g", "/", "p">> }

\* what follows "/-/issues/": nothing, 1, 42, g, 1/g
Tails == { <<>>, <<"1">>, <<"4", "2">>, <<"g">>, <<"1", "/", "g">> }

Pathnames ==
    { <<"/">> \o pp \o IssueMarker \o tail : pp \in ProjectPaths, tail \in Tails }
        \cup { <<"/">> \o pp \o <<"/", "issues", "/", "1">> : pp \in ProjectPaths }
        \cup { IssueMarker \o <<"1">> }

Hosts == {"gitlab.com", "gitlab.example.com"}

\* the href of an anchor: empty, not an absolute URL, or an absolute URL
Hrefs ==
    { [kind |-> "empty", host |-> "", pathname |-> <<>>],
      [kind |-> "relative", host |-> "", pathname |-> <<"g">>] }
        \cup { [kind |-> "absolute", host |-> h, pathname |-> p] :
                   h \in Hosts, p \in Pathnames }

\* new URL(url): throws unless url is an absolute URL
URL(url) ==
    IF url.kind = "absolute"
    THEN Returned([host |-> url.host, pathname |-> url.pathname])
    ELSE Thrown

\* "/-/issues/" and a digit stand at position i of the path
MarkerAt(pathname, i) ==
    /\ i + 5 <= Len(pathname)
    /\ SubSeq(pathname, i, i + 4) = IssueMarker
    /\ pathname[i + 5] \in Digits

\* /\/.*\/-\/issues\/\d+/.test(pathname)
TestIssuePattern(pathname) ==
    \E start \in 1..Len(pathname) :
        /\ pathname[start] = "/"
        /\ \E i \in (start + 1)..Len(pathname) : MarkerAt(pathname, i)

\* the positions at which /^\/(.+)\/-\/issues\/(\d+)/ can match the marker
MatchPositions(pathname) ==
    IF pathname # <<>> /\ pathname[1] = "/"
    THEN { i \in 3..Len(pathname) : MarkerAt(pathname, i) }
    ELSE {}

RECURSIVE DigitsFrom(_, _)
\* (\d+) from position i on
DigitsFrom(pathname, i) ==
    IF i <= Len(pathname) /\ pathname[i] \in Digits
    THEN <<pathname[i]>> \o DigitsFrom(pathname, i + 1)
    ELSE <<>>

\* encodeURIComponent on the tokens of a project path
encodeURIComponent(text) ==
    [i \in 1..Len(text) |-> IF text[i] = "/" THEN "%2F" ELSE text[i]]

\* postprocessor: isGitlabIssueUrl(url)
isGitlabIssueUrl(url) ==
    IF ~URL(url).ok \/ ~URL(settings.gitlabUrl).ok THEN FALSE
    ELSE /\ URL(url).val.host = URL(settings.gitlabUrl).val.host
         /\ TestIssuePattern(URL(url).val.pathname)

\* postprocessor: parseGitlabIssueUrl(url); Thrown stands for null.
\* (.+) is greedy: the last position that matches is the one taken
parseGitlabIssueUrl(url) ==
    IF ~URL(url).ok THEN Thrown
    ELSE LET pathname == URL(url).val.pathname
             at == MatchPositions(pathname)
         IN  IF at = {} THEN Thrown
             ELSE LET i == CHOOSE k \in at : \A j \in at : j <= k
                  IN  Returned([projectId |->
                                    encodeURIComponent(SubSeq(pathname, 2, i - 1)),
                                issueIid |-> DigitsFrom(pathname, i + 5)])

LoadingSuffix == " (loading...)"

\* textContent.replace(' (loading...)', ''): the first occurrence goes
ReplaceFirst(text, token) ==
    IF \A i \in 1..Len(text) : text[i] # token THEN text
    ELSE LET p == CHOOSE i \in 1..Len(text) :
                      text[i] = token /\ \A j \in 1..(i - 1) : text[j] # token
         IN  SubSeq(text, 1, p - 1) \o SubSeq(text, p + 1, Len(text))

\* the text of an anchor: a word, or none (an anchor around an image)
Texts == { <<"t">>, <<>> }

NoRequest == [projectId |-> <<>>, issueIid |-> <<>>]

\* an anchor element as rendered
Anchor(href, text) ==
    [href |-> href, originalText |-> text, textContent |-> text,
     opacity |-> "", replaced |-> FALSE, pc |-> "idle", request |-> NoRequest]

\* postprocessor: processGitlabLink(linkElement, href) up to its await,
\* or to its end when parseGitlabIssueUrl returns null
processGitlabLink(link) ==
    LET loading == [link EXCEPT
                       !.textContent = Append(link.originalText, LoadingSuffix),
                       !.opacity = "0.6"]
        issueInfo == parseGitlabIssueUrl(link.href)
    IN  IF issueInfo.ok
        THEN [loading EXCEPT !.pc = "awaiting", !.request = issueInfo.val]
        ELSE [loading EXCEPT !.pc = "returned"]

\* postprocessor: processElement(element, context)
processElement ==
    /\ ~scanned
    /\ scanned' = TRUE
    /\ links' = IF settings.gitlabToken = ""
                THEN links
                ELSE [l \in 1..Len(links) |->
                         IF /\ links[l].href.kind # "empty"
                            /\ isGitlabIssueUrl(links[l].href)
                         THEN processGitlabLink(links[l])
                         ELSE links[l]]
    /\ UNCHANGED <<vars, call, timerVars>>

\* what the remote answers: an issue, an object without state (rendering
\* it throws), or an error (fetchGitlabIssue returns null)
FetchOutcomes == {"issue", "stateless", "error"}

\* the request of a link settles and processGitlabLink runs to its end
FetchDone ==
    \E l \in 1..Len(links), outcome \in FetchOutcomes :
        /\ links[l].pc = "awaiting"
        /\ links' = [links EXCEPT ![l] =
               CASE outcome = "issue" ->
                        [@ EXCEPT !.replaced = TRUE, !.pc = "returned"]
                 [] outcome = "error" ->
                        [@ EXCEPT !.textContent = links[l].originalText,
                                  !.opacity = "1", !.pc = "returned"]
                 [] OTHER ->
                        LET text == ReplaceFirst(links[l].textContent, LoadingSuffix)
                        IN  [@ EXCEPT !.textContent = IF text = <<>>
                                                      THEN <<"href">> ELSE text,
                                      !.opacity = "1", !.pc = "returned"]]
        /\ UNCHANGED <<vars, call, scanned, timerVars>>

\* the settings the decorator reads: the token and the tracker's address
LinkSettings ==
    { [gitlabToken |-> token, gitlabUrl |-> url] :
          token \in {"", "token"},
          url \in { [kind |-> "absolute", host |-> "gitlab.com", pathname |-> <<"/">>],
                    [kind |-> "relative", host |-> "", pathname |-> <<"g">>] } }

\* a rendered block with up to MaxLinks anchors
InitLinks ==
    /\ settings \in LinkSettings
    /\ Idle
    /\ call = [fn |-> "none", done |-> FALSE]
    /\ links \in UNION { [1..n -> { Anchor(href, text) :
                                       href \in Hrefs, text \in Texts }] :
                            n \in 1..MaxLinks }
    /\ scanned = FALSE
    /\ NoTimer

NextLinks ==
    \/ processElement
    \/ FetchDone

\* the link decorator on one rendered block
SpecLinks == InitLinks /\ [][NextLinks]_allVars

(* ------------------------------------------------------------------ *)
(* Automatic refresh                                                   *)
(* ------------------------------------------------------------------ *)

\* settings.intervalOfRefresh: "off" or a number of minutes
Intervals == {"off", "1", "15"}

\* window.clearInterval(handle) left undone
clearIntervalSkipped(active, handle) == active

\* window.clearInterval(handle): the timer of that handle, if one is
\* active, is no longer
clearInterval(active, handle) == active \ {handle}

\* window.setInterval returns a handle greater than zero that no active
\* timer has
FreeHandles(active) == (1..MaxTimerId) \ active

\* main: scheduleAutomaticRefresh, called with settings.intervalOfRefresh
\* being interval
scheduleAutomaticRefresh ==
    \E interval \in Intervals :
        /\ Len(calls) < MaxCalls
        /\ settings' = [intervalOfRefresh |-> interval]
        /\ calls' = Append(calls, interval)
        /\ LET cleared == IF automaticRefresh # 0
                          THEN clearInterval(timers, automaticRefresh)
                          ELSE timers
           IN  IF interval # "off"
               THEN \E handle \in FreeHandles(cleared) :
                        /\ timers' = cleared \cup {handle}
                        /\ automaticRefresh' = handle
               ELSE /\ timers' = cleared
                    /\ automaticRefresh' = automaticRefresh
        /\ UNCHANGED <<isLoading, nRuns, inflight, arrival, vault, fileops,
                       notices, failedRuns, dropped, lastIssues, repeat,
                       call, links, scanned>>

\* a loaded plugin with no automatic refresh scheduled yet
InitTimer ==
    /\ settings \in { [intervalOfRefresh |-> interval] : interval \in Intervals }
    /\ Idle
    /\ call = [fn |-> "none", done |-> FALSE]
    /\ links = <<>>
    /\ scanned = FALSE
    /\ NoTimer

NextTimer == scheduleAutomaticRefresh

\* the automatic refresh under any sequence of schedulings
SpecTimer == InitTimer /\ [][NextTimer]_allVars

(* ------------------------------------------------------------------ *)
(* Properties                                                          *)
(* ------------------------------------------------------------------ *)

\* the vault operations a step starts, and the ones it completes
Started == fileops' \ fileops
Completed == fileops \ fileops'

\* the runs in flight: fetchFromGitlab is suspended at the await of their
\* requests
Awaiting == { run \in inflight : PromiseAll(run.reqs) = "pending" }

\* C1: at most one run is in flight, and while isLoading is true no step
\* starts a run or a request; an invocation made then is dropped: it
\* changes neither the runs, the requests, the pending vault operations
\* nor the vault.
C1_SingleRunInFlight ==
    /\ [](Cardinality(Awaiting) <= 1)
    /\ [][isLoading =>
            /\ nRuns' = nRuns
            /\ \A run \in inflight' : \E old \in inflight :
                   old.id = run.id /\ Len(old.reqs) = Len(run.reqs)
            /\ (dropped' /\ ~dropped) =>
                   UNCHANGED <<nRuns, inflight, fileops, vault, isLoading>>]_vars

\* an invocation was dropped while a run was in flight although a further
\* run was still allowed to start
C1_Witness ==
    isLoading /\ dropped /\ nRuns < MaxRuns /\ Cardinality(fileops) <= MaxBacklog

\* C2: with purgeIssues set, when a create or a frontmatter write of a run
\* takes effect, no delete of that run's purge is still pending.
C2_PurgeBeforeWrite ==
    [][\A op \in Completed :
          (op.kind \in {"create", "fmWrite"} /\ vault'[op.path] # vault[op.path])
              => ~\E del \in fileops : del.kind = "delete" /\ del.run = op.run]_vars

\* C3: a reconcile step that repeats the completed one before it, over
\* the same issues and without purge, starts no create and no frontmatter
\* write.
C3_ReconcileIdempotent ==
    \A op \in fileops : op.run = repeat => op.kind \notin {"create", "fmWrite"}

\* C4: every run that failed at the top level has shown exactly one
\* "Failed to update issues from Gitlab" notice, and no other run has.
C4_OneNoticePerFailedRun ==
    notices.failed = Cardinality(failedRuns)

\* C5: a run one of whose requests failed starts no vault operation and
\* changes no file: none of its operations is ever pending, and the step
\* in which it fails leaves the vault and the pending operations alone.
C5_NoPartialSuccess ==
    /\ [](\A op \in fileops : op.run \notin failedRuns)
    /\ [][failedRuns' # failedRuns => UNCHANGED <<vault, fileops>>]_vars

\* a custom run with purge set failed and both of its requests have
\* settled, while the output directory held files
C5_Witness ==
    /\ settings.purgeIssues
    /\ settings.gitlabIssuesLevel = "custom"
    /\ nRuns \in failedRuns
    /\ Len(arrival) = 2
    /\ \E p \in Paths : vault[p].exists

\* C6: when the issues of a run are reconciled, every issue with no file at
\* its path gets exactly one operation, a create at outputDir/filename.md;
\* a create that succeeds makes that one file with the rendered content
\* and sends one "New issue created" notification; a frontmatter write is
\* only started by the read of an existing file for the same issue.
C6_CreateWhenAbsent ==
    [][/\ \A t \in Completed : t.kind = "tmplRead" =>
             \A k \in 1..Len(t.issues) :
                 LET issue == t.issues[k]
                     mine == {op \in Started : op.run = t.run /\ op.k = k}
                 IN  ~(/\ sanitizeFileName(issue.title) \in Paths
                       /\ vault[sanitizeFileName(issue.title)].exists)
                     => /\ Cardinality(mine) = 1
                        /\ \A op \in mine :
                              /\ op.kind = "create"
                              /\ op.path = sanitizeFileName(issue.title)
                              /\ op.issue = issue
       /\ \A op \in Completed : (op.kind = "create" /\ vault' # vault) =>
             /\ ~vault[op.path].exists
             /\ vault'[op.path].exists
             /\ vault'[op.path].body = Template(op.tmpl, op.issue).body
             /\ vault'[op.path].frontmatter =
                    getFrontmatterFromContentString(Template(op.tmpl, op.issue)).val
             /\ \A p \in Paths \ {op.path} : vault'[p] = vault[p]
             /\ notices' = [notices EXCEPT !.created = @ + 1]
       /\ \A op \in Started : op.kind = "fmWrite" =>
             \E r \in Completed : r.kind = "read" /\ r.run = op.run /\ r.k = op.k
      ]_vars

\* C7: a frontmatter write is started only when needsUpdate(existing, new)
\* holds for the file as it is then; a frontmatter write that takes effect
\* sets the keys of the new frontmatter, keeps every other key and the
\* body, and sends one "Issue Updated" notification.
C7_UpdateOnlyWhenNeeded ==
    [][/\ \A op \in Started : op.kind = "fmWrite" =>
             needsUpdate(vault[op.path].frontmatter, NewFrontmatter(op.tmpl, op.issue))
       /\ \A op \in Completed : (op.kind = "fmWrite" /\ vault[op.path].exists) =>
             LET new == NewFrontmatter(op.tmpl, op.issue).v
                 old == FrontmatterMap(vault[op.path])
                 now == vault'[op.path].frontmatter.v
             IN  /\ DOMAIN now = (DOMAIN old) \cup (DOMAIN new)
                 /\ \A key \in DOMAIN new : now[key] = new[key]
                 /\ \A key \in (DOMAIN old) \ (DOMAIN new) : now[key] = old[key]
                 /\ vault'[op.path].body = vault[op.path].body
                 /\ notices' = [notices EXCEPT !.updated = @ + 1]
      ]_vars

\* C8: an issue that has a file from an earlier import (a file whose
\* frontmatter id is the issue's) and comes back with another title is
\* reconciled against that file and not by a create.
C8_RenamedIssueUpdatesItsFile ==
    [][\A op \in Started : \A p \in Paths :
          (/\ op.kind \in {"create", "read", "fmWrite"}
           /\ \E t \in Completed : t.kind = "tmplRead"
           /\ vault[p].exists
           /\ vault[p].frontmatter.t = "obj"
           /\ Get(vault[p].frontmatter, "id") = Num(op.issue.id)
           /\ Get(vault[p].frontmatter, "title") # Str(op.issue.title))
              => (op.kind # "create" /\ op.path = p)]_vars

\* C9: when the issues of a run are reconciled, every issue that itself
\* renders and parses is handed a vault operation, wherever an issue that
\* throws stands in the list.
C9_IssuesIndependent ==
    [][\A t \in Completed : t.kind = "tmplRead" =>
          \A k \in 1..Len(t.issues) :
              ~RenderThrows(CompiledTemplate, t.issues[k])
                  => \E op \in Started : op.run = t.run /\ op.k = k]_vars

\* C10: in custom scope the issues handed to the reconcile step are the
\* project's response followed by the group's, in the order of the
\* sources in gitlabAppId, however the two requests complete.
C10_FlattenInRequestOrder ==
    [][\A run \in inflight :
          (run \notin inflight' /\ Len(run.reqs) = 2) =>
              \A op \in Started : op.kind = "tmplRead" =>
                  \E first \in Responses(run.reqs[1].source),
                     second \in Responses(run.reqs[2].source) :
                      /\ \A i \in {1, 2} : run.reqs[i].st = "fulfilled" =>
                             run.reqs[i].resp = (IF i = 1 THEN first ELSE second)
                      /\ op.issues = [k \in 1..(Len(first) + Len(second)) |->
                             GitlabIssue(IF k <= Len(first) THEN first[k]
                                         ELSE second[k - Len(first)])]]_vars

\* the group's response arrived before the project's, and the reconcile
\* step was handed the project's issue first
C10_Witness ==
    /\ arrival = <<2, 1>>
    /\ \E op \in fileops :
           /\ op.kind = "tmplRead"
           /\ Len(op.issues) = 2
           /\ op.issues[1].id = <<"1">>
           /\ op.issues[2].id = <<"2">>

\* the entries of a custom-scope string, as the claim counts them
CommaEntries(customString) == Split(customString, ",")

\* the type prefix of an entry: the trimmed, upper-cased text before the colon
Prefix(entry) == ToUpperCase(Trim(Split(entry, ":")[1]))

TypeOfPrefix(prefix) == IF prefix = <<"P">> THEN "project" ELSE "group"

\* C11 (as stated): parseCustomSources yields exactly one request target
\* per comma-separated entry, in input order, project for prefix P and
\* group for prefix G; if any entry has another prefix the resolution
\* fails with the invalid-source error and no request is issued.
C11_OneTargetPerEntry ==
    (call.fn = "parseCustomSources" /\ call.done) =>
        LET es == CommaEntries(call.customString)
        IN  IF \A i \in 1..Len(es) : Prefix(es[i]) \in {<<"P">>, <<"G">>}
            THEN /\ call.result.ok
                 /\ Len(call.result.val) = Len(es)
                 /\ \A i \in 1..Len(es) :
                        call.result.val[i].type = TypeOfPrefix(Prefix(es[i]))
                 /\ Len(call.requests) = Len(es)
            ELSE /\ ~call.result.ok
                 /\ call.error = "InvalidSourceType"
                 /\ call.requests = <<>>

\* the entries that are not empty once trimmed
NonEmptyEntries(customString) ==
    LET es == CommaEntries(customString)
        Kept(e) == Trim(e) # <<>>
    IN  SelectSeq(es, Kept)

\* C11 (amended): parseCustomSources yields exactly one request target per
\* comma-separated entry that is not empty once trimmed, in input order,
\* project for prefix P and group for prefix G, with the trimmed text
\* between the first colon and the next one (or the end) as id; if any such
\* entry has another prefix or no colon, the resolution fails and no
\* request is issued for any entry.
C11_OneTargetPerNonEmptyEntry ==
    (call.fn = "parseCustomSources" /\ call.done) =>
        LET es == NonEmptyEntries(call.customString)
            WellFormed(e) == /\ Prefix(e) \in {<<"P">>, <<"G">>}
                             /\ Len(Split(e, ":")) >= 2
        IN  IF \A i \in 1..Len(es) : WellFormed(es[i])
            THEN /\ call.result.ok
                 /\ Len(call.result.val) = Len(es)
                 /\ \A i \in 1..Len(es) :
                        /\ call.result.val[i].type = TypeOfPrefix(Prefix(es[i]))
                        /\ call.result.val[i].id = Trim(Split(es[i], ":")[2])
                 /\ Len(call.requests) = Len(es)
                 /\ \A i \in 1..Len(es) :
                        call.requests[i].source = call.result.val[i]
            ELSE /\ ~call.result.ok
                 /\ call.error \in {"InvalidSourceType", "TypeError"}
                 /\ call.requests = <<>>

\* "P:1,,G:45" was resolved: the empty entry is skipped, two targets
C11_Witness ==
    /\ call.fn = "parseCustomSources"
    /\ call.done
    /\ call.customString = <<"P", ":", "1", ",", ",", "G", ":", "4", "5">>
    /\ call.result.ok
    /\ Len(call.result.val) = 2

\* the mapping {}
EmptyMapping == Obj([key \in {} |-> Null])

\* C12: needsUpdate(existing, {}) is false for every value of
\* existing: null/undefined, a scalar, a sequence or a mapping.
C12_EmptyNewNeverUpdates ==
    (call.fn = "needsUpdate" /\ call.done /\ call.newObject = EmptyMapping) =>
        call.result = FALSE

RECURSIVE Differs(_, _)
\* the value a key maps to in existing is different from the one in new,
\* compared recursively: mappings key by key over the keys of new,
\* sequences by length and element by element, anything else by value
Differs(old, new) ==
    IF old.t = "obj" /\ new.t = "obj"
    THEN \E key \in DOMAIN new.v :
             key \notin DOMAIN old.v \/ Differs(old.v[key], new.v[key])
    ELSE IF old.t = "arr" /\ new.t = "arr"
    THEN \/ Len(old.v) # Len(new.v)
         \/ \E i \in 1..Len(new.v) : Differs(old.v[i], new.v[i])
    ELSE old # new

\* existing without the keys that new does not have
WithoutOwnKeys(existing, newObject) ==
    Obj([key \in (DOMAIN existing.v) \cap (DOMAIN newObject.v) |-> existing.v[key]])

\* C13: for mappings existing and new, needsUpdate(existing, new) is true
\* if and only if some key of new is missing from existing or maps to a
\* different value in existing (compared recursively); keys present only
\* in existing never change the result; it is false when the two are
\* deeply equal.
C13_UpdateIffKeyMissingOrDifferent ==
    (/\ call.fn = "needsUpdate"
     /\ call.done
     /\ call.existing.t = "obj"
     /\ call.newObject.t = "obj") =>
        /\ call.result = Differs(call.existing, call.newObject)
        /\ call.result =
               needsUpdate(WithoutOwnKeys(call.existing, call.newObject),
                           call.newObject)
        /\ (call.existing = call.newObject => ~call.result)

\* the characters a filename may not contain
Unsafe == {":", "*", "\"", "/", "\\", "<", ">", "|", "?"}

\* C17: for every input string, sanitizeFileName returns a string with none
\* of the characters : * " / \ < > | ? in it: the colons are removed, each
\* of the others is replaced by one hyphen, and every other character is
\* kept in place and in order.
C17_SanitizedHasNoUnsafeChar ==
    (call.fn = "sanitizeFileName" /\ call.done) =>
        LET NotColon(c) == c # ":"
            kept == SelectSeq(call.value, NotColon)
        IN  /\ \A i \in 1..Len(call.result) : call.result[i] \notin Unsafe
            /\ Len(call.result) = Len(kept)
            /\ \A i \in 1..Len(kept) :
                   call.result[i] = IF kept[i] \in Unsafe THEN "-" ELSE kept[i]

\* sanitizeFileName("a:\") was applied and gave "a-"
C17_Witness ==
    /\ call.fn = "sanitizeFileName"
    /\ call.done
    /\ call.value = <<"a", ":", "\\">>
    /\ call.result = <<"a", "-">>

\* the link is as it was rendered
Untouched(link) ==
    /\ link.textContent = link.originalText
    /\ link.opacity = ""
    /\ ~link.replaced

\* C14: every link the decorator started processing ends either replaced
\* by a summary card or restored to its original text and full opacity,
\* also when the fetch fails or the issue URL cannot be parsed; stated on
\* the links whose processGitlabLink has run to its end.
C14_LinkEndsAsCardOrRestored ==
    \A l \in 1..Len(links) :
        links[l].pc = "returned" =>
            \/ links[l].replaced
            \/ /\ links[l].textContent = links[l].originalText
               /\ links[l].opacity = "1"

\* the path has the shape /<project-path>/-/issues/<number>
HasIssueShape(pathname) ==
    \E n \in 1..Len(pathname), m \in 1..Len(pathname) :
        /\ n + m + 6 <= Len(pathname)
        /\ pathname[1] = "/"
        /\ SubSeq(pathname, n + 2, n + 6) = IssueMarker
        /\ \A i \in (n + 7)..(n + m + 6) : pathname[i] \in Digits

\* C15: the decorator never modifies a link and never issues a request for
\* it unless a token is configured, the host of the link is the configured
\* tracker host and its path has the shape /<project-path>/-/issues/<number>.
C15_OnlyIssueLinksOfTrackerTouched ==
    \A l \in 1..Len(links) :
        (~Untouched(links[l]) \/ links[l].request # NoRequest) =>
            /\ settings.gitlabToken # ""
            /\ links[l].href.kind = "absolute"
            /\ settings.gitlabUrl.kind = "absolute"
            /\ links[l].href.host = settings.gitlabUrl.host
            /\ HasIssueShape(links[l].href.pathname)

\* C16: if the user's template file cannot be read, the run still
\* reconciles every fetched issue, with the built-in default template, and
\* shows the user no notice: when the rejected read of the template
\* settles, every issue of the run that renders is handed a vault operation
\* that carries the default template, and no notice is shown.
C16_UnreadableTemplateFallsBack ==
    [][\A t \in Completed :
          (t.kind = "tmplRead" /\ settings.templateFile = "missing") =>
              /\ \A k \in 1..Len(t.issues) :
                     ~RenderThrows("default", t.issues[k]) =>
                         \E op \in Started :
                             /\ op.run = t.run
                             /\ op.k = k
                             /\ op.issue = t.issues[k]
                             /\ op.tmpl = "default"
              /\ notices' = notices]_vars

\* C18: file operations of two distinct runs never interleave: isLoading
\* stays true until every vault operation a run started has completed, so
\* no run starts while operations of an earlier run are pending, and the
\* pending operations are always those of one run.
C18_RunsDoNotInterleave ==
    /\ [](isLoading \/ Awaiting # {} \/ fileops = {})
    /\ [][nRuns' # nRuns => fileops = {}]_vars
    /\ [](\A op1 \in fileops, op2 \in fileops : op1.run = op2.run)

\* the issues of the last reconcile step, as the filesystem sees them
LastGitlabIssues == [k \in 1..Len(lastIssues) |-> GitlabIssue(lastIssues[k])]

\* C19: with purgeIssues set and a successful fetch of issues with pairwise
\* distinct filenames, once all file operations of the run have completed
\* the output directory holds a file for every fetched issue and no file
\* that was there before the run.  Stated for the first run, over issues
\* that all render: every file is the one the run created for an issue.
C19_PurgedDirectoryHoldsFetchedIssues ==
    (/\ settings.purgeIssues
     /\ nRuns = 1
     /\ ~isLoading
     /\ inflight = {}
     /\ failedRuns = {}
     /\ fileops = {}
     /\ lastIssues # <<>>
     /\ \A j, k \in 1..Len(lastIssues) :
            j # k => LastGitlabIssues[j].filename # LastGitlabIssues[k].filename
     /\ \A k \in 1..Len(lastIssues) :
            ~RenderThrows(CompiledTemplate, LastGitlabIssues[k])) =>
        /\ \A k \in 1..Len(lastIssues) :
               vault[buildFileName(LastGitlabIssues[k])] =
                   Created(CompiledTemplate, LastGitlabIssues[k])
        /\ \A path \in Paths :
               vault[path].exists =>
                   \E k \in 1..Len(lastIssues) :
                       path = buildFileName(LastGitlabIssues[k])

\* C20: every run that starts eventually clears isLoading, provided its
\* remote requests complete, whether the fetch succeeded or failed; and
\* isLoading is true only between a run's start and its end, that is,
\* exactly while a run awaits its requests.
C20_RunEventuallyClearsLoading ==
    /\ isLoading ~> ~isLoading
    /\ [](isLoading <=> Awaiting # {})

\* the first run, in project scope, ended with its request rejected, and
\* isLoading is false again
C20_Witness ==
    /\ settings.gitlabIssuesLevel = "project"
    /\ 1 \in failedRuns
    /\ inflight = {}
    /\ ~isLoading

\* C21: the frontmatter merge converges in one step: for every existing
\* frontmatter mapping E and new frontmatter mapping N, after N was merged
\* into E with Object.assign, needsUpdate(merged, N) is false.
C21_MergeConverges ==
    (call.fn = "merge" /\ call.done) => call.result = FALSE

\* C22: after any sequence of scheduleAutomaticRefresh calls with any
\* interval settings, at most one interval timer is active, and none is
\* active when the last call was made with intervalOfRefresh "off".
C22_AtMostOneTimer ==
    /\ Cardinality(timers) <= 1
    /\ (calls # <<>> /\ calls[Len(calls)] = "off") => timers = {}

\* a timer was scheduled, switched off, and scheduled again
C22_Witness ==
    /\ Len(calls) = 3
    /\ calls[1] # "off"
    /\ calls[2] = "off"
    /\ calls[3] # "off"
    /\ Cardinality(timers) = 1

====
